---- MODULE Spec2Model ----
(***************************************************************************)
(* BlinkDB: a bounded in-memory key/value table with LRU eviction, a flat  *)
(* persistence file and a RESP-2 connection server.                        *)
(*                                                                         *)
(* The storage engine (Part B/src/blinkdb.cpp) is modelled as the record   *)
(* db, the persistence file as the sequence of bytes file, and the last    *)
(* call a client made on the engine, with its result, as the record last.  *)
(* A std::string is a sequence of one-character strings.                   *)
(***************************************************************************)
EXTENDS Integers, Sequences, FiniteSets, TLC

VARIABLES
    db,        \* the BlinkDB object: store, lru_keys, lru_map, evicted_keys, dirty
    file,      \* flush_data.txt: the bytes it holds
    last,      \* the most recent client call on the engine and what it returned
    h_val,     \* history: the value each key held when it was last evicted
    h_flushed, \* history: the keys evicted before the latest completed rewrite
    srv,       \* the server process: its connection and the last buffer it read
    eng,       \* the engine object: the iteration order of store, and its lifetime
    thr,       \* the threads that call the engine: where each is in its call
    lb,        \* the load balancer: current_server and the connections it forked for
    net,       \* the server's connections: what was read from and written to each
    mtx,       \* db_mutex: who holds it in shared mode, and what was written without it
    fl,        \* the executions of persistToFile in progress, step by step
    h_set      \* history: the value of the most recent set of each key

vars == <<db, file, last, h_val, h_flushed, srv, eng, thr, lb, net, mtx, fl, h_set>>

-----------------------------------------------------------------------------
(* Bounds and input sets *)

\* max_cache_size (MAX_CAPACITY is 10000 in the source; scaled down here)
max_cache_size == 2

TAB == "\t"

NL == "\n"

\* the keys the driver uses
Keys == {<<"a">>, <<"b">>, <<"c">>}

\* the values the driver uses: a plain one, and one that holds a newline and a tab
Values == {<<"1">>, <<"2", NL, "c", TAB, "1">>}

\* the string BlinkDB::get returns for a key it does not find
NULL == <<"N", "U", "L", "L">>

\* "no value" in the records the model keeps about calls
None == <<"-">>

-----------------------------------------------------------------------------
(* Sequence helpers *)

Range(s) == {s[i] : i \in DOMAIN s}

\* the sequence s without its i-th element
RemoveAt(s, i) == SubSeq(s, 1, i - 1) \o SubSeq(s, i + 1, Len(s))

\* index of the first element of s that satisfies s[i] = x (0 when none)
FirstIndex(s, x) ==
    IF x \in Range(s) THEN CHOOSE i \in DOMAIN s : s[i] = x /\ \A j \in 1..(i - 1) : s[j] # x
    ELSE 0

-----------------------------------------------------------------------------
(* std::unordered_map<std::string, std::string> store: a function from the *)
(* keys it holds to their values.                                           *)

StoreKeys(st) == DOMAIN st

\* store[key] = value
StoreAssign(st, key, value) ==
    [k \in DOMAIN st \cup {key} |-> IF k = key THEN value ELSE st[k]]

\* store.erase(key)
StoreErase(st, key) == [k \in DOMAIN st \ {key} |-> st[k]]

\* every sequence that lists each element of the finite set S once
RECURSIVE Orderings(_)
Orderings(S) ==
    IF S = {} THEN {<<>>}
    ELSE UNION {{<<x>> \o s : s \in Orderings(S \ {x})} : x \in S}

-----------------------------------------------------------------------------
(* The persistence file and the two readers of it *)

\* std::getline(in, str, delim) with the stream at byte pos of f: it fails when
\* no byte is left; otherwise it takes the bytes up to the next delim (or to the
\* end of the file when there is none) and consumes the delim.
getline(f, pos, delim) ==
    IF pos > Len(f) THEN [ok |-> FALSE, str |-> <<>>, pos |-> pos]
    ELSE IF \E j \in pos..Len(f) : f[j] = delim
    THEN LET j == CHOOSE j \in pos..Len(f) :
                      f[j] = delim /\ \A m \in pos..(j - 1) : f[m] # delim
         IN [ok |-> TRUE, str |-> SubSeq(f, pos, j - 1), pos |-> j + 1]
    ELSE [ok |-> TRUE, str |-> SubSeq(f, pos, Len(f)), pos |-> Len(f) + 1]

\* the <<line_key, value>> pairs that the loop
\*   while (std::getline(in, line_key, '\t') && std::getline(in, value))
\* goes through, reading f from byte pos on
RECURSIVE ReadRecords(_, _)
ReadRecords(f, pos) ==
    LET k == getline(f, pos, TAB)
        v == getline(f, k.pos, NL)
    IN IF k.ok /\ v.ok THEN <<<<k.str, v.str>>>> \o ReadRecords(f, v.pos) ELSE <<>>

\* the scan of restoreFromDisk: index of the first pair whose key matches, else 0
FileLookup(recs, key) == FirstIndex([i \in DOMAIN recs |-> recs[i][1]], key)

\* out << key << "\t" << value << "\n"
WriteRecord(key, value) == key \o <<TAB>> \o value \o <<NL>>

RECURSIVE Concat(_)
Concat(ss) == IF ss = <<>> THEN <<>> ELSE Head(ss) \o Concat(Tail(ss))

-----------------------------------------------------------------------------
(* BlinkDB private operations, as functions from engine state to engine state *)

\* lru_keys.erase(lru_map[key]): lru_map[key] is the node of the latest
\* push_front of key, which is the frontmost occurrence of key in the list
LruUnlink(d, key) ==
    IF key \in d.lru_map
    THEN [d EXCEPT !.lru_keys = RemoveAt(@, FirstIndex(@, key)),
                   !.lru_map = @ \ {key}]
    ELSE d

\* mutant: the key goes to the back of the list
LruPushBack(d, key) ==
    [d EXCEPT !.lru_keys = @ \o <<key>>, !.lru_map = @ \cup {key}]

LruPushFront(d, key) ==
    [d EXCEPT !.lru_keys = <<key>> \o @, !.lru_map = @ \cup {key}]

\* mutant: the eviction takes the front of the list
Evict_Front(d) ==
    LET evict_key == d.lru_keys[1] IN
    [d EXCEPT !.evicted_keys = IF evict_key \in StoreKeys(d.store)
                               THEN @ \cup {evict_key} ELSE @,
              !.store = StoreErase(@, evict_key),
              !.lru_map = @ \ {evict_key},
              !.lru_keys = Tail(@),
              !.dirty = TRUE]

\* the eviction branch of updateLRU
Evict(d) ==
    LET evict_key == d.lru_keys[Len(d.lru_keys)] IN
    [d EXCEPT !.evicted_keys = IF evict_key \in StoreKeys(d.store)
                               THEN @ \cup {evict_key} ELSE @,
              !.store = StoreErase(@, evict_key),
              !.lru_map = @ \ {evict_key},
              !.lru_keys = SubSeq(@, 1, Len(@) - 1),
              !.dirty = TRUE]

updateLRU(d, key) ==
    LET d2 == LruPushFront(LruUnlink(d, key), key) IN
    IF Len(d2.lru_keys) > max_cache_size THEN Evict(d2) ELSE d2

\* restoreFromDisk(key), reading file f
restoreFromDisk(d, f, key) ==
    LET recs == ReadRecords(f, 1)
        i == FileLookup(recs, key)
    IN IF i = 0 THEN d
       ELSE [LruPushFront(d, key) EXCEPT !.store = StoreAssign(@, key, recs[i][2]),
                                         !.evicted_keys = @ \ {key}]

\* the body of the loop of loadFromFile, run for the pairs recs[i], recs[i+1], ...
RECURSIVE LoadRecords(_, _, _)
LoadRecords(d, recs, i) ==
    IF i > Len(recs) THEN d
    ELSE LoadRecords([LruPushFront(d, recs[i][1]) EXCEPT
                         !.store = StoreAssign(@, recs[i][1], recs[i][2])],
                     recs, i + 1)

\* mutant: the first record of the file is skipped
loadFromFile_SkipFirst(d, f) == LoadRecords(d, ReadRecords(f, 1), 2)

\* BlinkDB::loadFromFile, reading file f
loadFromFile(d, f) == LoadRecords(d, ReadRecords(f, 1), 1)

\* the contents persistToFile may write: one line per element of store, in the
\* iteration order of the unordered_map, which the program does not control
StoreLines(st) ==
    {Concat([i \in DOMAIN o |-> WriteRecord(o[i], st[o[i]])]) : o \in Orderings(DOMAIN st)}

\* a BlinkDB object as its member initialisers leave it (blinkdb.h)
EmptyDB ==
    [store |-> << >>, lru_keys |-> <<>>, lru_map |-> {}, evicted_keys |-> {},
     dirty |-> FALSE]

-----------------------------------------------------------------------------
(* BlinkDB public operations. Each yields the set of outcomes [db, ret] the *)
(* call may have from engine state d (and file f).                          *)

\* mutant: store.insert({key, value}), which keeps the value of a key already held
set_Insert(d, key, value) ==
    LET d2 == updateLRU(d, key) IN
    [db |-> [d2 EXCEPT !.store = IF key \in StoreKeys(@) THEN @
                                 ELSE StoreAssign(@, key, value),
                       !.dirty = TRUE],
     ret |-> None]

\* BlinkDB::set
set(d, key, value) ==
    LET d2 == updateLRU(d, key) IN
    [db |-> [d2 EXCEPT !.store = StoreAssign(@, key, value), !.dirty = TRUE],
     ret |-> None]

\* the tail of BlinkDB::get once `it` points at an element of d.store:
\* updateLRU(key), then return it->second. Should updateLRU erase that very
\* element, `it` dangles and the read may yield anything.
GetHit(d, key) ==
    LET d2 == updateLRU(d, key) IN
    IF key \in StoreKeys(d2.store) THEN {[db |-> d2, ret |-> d.store[key]]}
    ELSE {[db |-> d2, ret |-> r] : r \in Values \cup {NULL}}

\* BlinkDB::get up to read_lock.unlock(), under the shared lock: the lookup,
\* with the restore of an evicted key; found says that `it` points at an
\* element of store, else get returns "NULL" here
getFind(d, f, key) ==
    IF key \in StoreKeys(d.store) THEN [db |-> d, found |-> TRUE]
    ELSE IF key \in d.evicted_keys
    THEN LET d1 == restoreFromDisk(d, f, key)
         IN  [db |-> d1, found |-> key \in StoreKeys(d1.store)]
    ELSE [db |-> d, found |-> FALSE]

\* BlinkDB::get from the unique lock on: updateLRU(key), return it->second.
\* valid says that the element `it` points at has not been erased since the
\* lookup; if it has, `it` dangles and the read may yield anything.
getTouch(d, key, valid) ==
    IF valid /\ key \in StoreKeys(d.store) THEN GetHit(d, key)
    ELSE {[db |-> updateLRU(d, key), ret |-> r] : r \in Values \cup {NULL}}

\* BlinkDB::get: the outcomes [db, ret] it may have
get(d, f, key) ==
    IF key \in StoreKeys(d.store) THEN GetHit(d, key)
    ELSE IF key \in d.evicted_keys
    THEN LET d1 == restoreFromDisk(d, f, key) IN
         IF key \in StoreKeys(d1.store) THEN GetHit(d1, key)
         ELSE {[db |-> d1, ret |-> NULL]}
    ELSE {[db |-> d, ret |-> NULL]}

\* mutant: the key stays in lru_keys and lru_map
del_KeepLru(d, key) ==
    IF key \notin StoreKeys(d.store) THEN [db |-> d, ret |-> FALSE]
    ELSE [db |-> [d EXCEPT !.store = StoreErase(@, key), !.dirty = TRUE],
          ret |-> TRUE]

\* mutant: the key is unlinked from the LRU list and stays in store
del_KeepStore(d, key) ==
    IF key \notin StoreKeys(d.store) THEN [db |-> d, ret |-> FALSE]
    ELSE [db |-> [LruUnlink(d, key) EXCEPT !.dirty = TRUE], ret |-> TRUE]

\* BlinkDB::del
del(d, key) ==
    IF key \notin StoreKeys(d.store) THEN [db |-> d, ret |-> FALSE]
    ELSE [db |-> [LruUnlink(d, key) EXCEPT !.store = StoreErase(@, key),
                                           !.dirty = TRUE],
          ret |-> TRUE]

\* BlinkDB::persistToFile: the outcomes [db, file] it may have. The ofstream
\* either opens, truncating the file, or fails to open and leaves it as it is.
persistToFile(d, f) ==
    {[db |-> [d EXCEPT !.dirty = FALSE], file |-> lines] :
        lines \in StoreLines(d.store) \cup {f}}

-----------------------------------------------------------------------------
(* The RESP-2 codec of the server (Part B/src/blink_server.cpp).            *)
(* Positions in a buffer are 1-based here and 0-based in the source: the    *)
(* source's index i is position i + 1.                                      *)

CR == "\r"

CRLF == <<CR, NL>>

Digits == <<"0", "1", "2", "3", "4", "5", "6", "7", "8", "9">>

IsDigit(c) == \E i \in DOMAIN Digits : Digits[i] = c

DigitVal(c) == (CHOOSE i \in DOMAIN Digits : Digits[i] = c) - 1

\* std::isspace in the "C" locale, for the characters a buffer of the model holds
IsSpace(c) == c \in {" ", TAB, NL, CR, "\f"}

\* the largest int
INT_MAX == 2147483647

\* the first position at or after pos that satisfies no space (Len(s) + 1 when none)
RECURSIVE SkipSpace(_, _)
SkipSpace(s, pos) ==
    IF pos <= Len(s) /\ IsSpace(s[pos]) THEN SkipSpace(s, pos + 1) ELSE pos

\* the value of the run of digits of s that starts at pos, and where it ends
RECURSIVE DigitRun(_, _, _)
DigitRun(s, pos, acc) ==
    IF pos <= Len(s) /\ IsDigit(s[pos])
    THEN DigitRun(s, pos + 1, 10 * acc + DigitVal(s[pos]))
    ELSE [val |-> acc, pos |-> pos]

\* std::stoi(s): leading white space, an optional sign, then the longest run
\* of digits. It throws std::invalid_argument when there is no digit and
\* std::out_of_range when the value does not fit an int.
stoi(s) ==
    LET p == SkipSpace(s, 1)
        neg == p <= Len(s) /\ s[p] = "-"
        q == IF p <= Len(s) /\ s[p] \in {"-", "+"} THEN p + 1 ELSE p
        run == DigitRun(s, q, 0)
        val == IF neg THEN 0 - run.val ELSE run.val
    IN  IF run.pos = q \/ val > INT_MAX \/ val < (0 - INT_MAX) - 1
        THEN [ok |-> FALSE, val |-> 0]
        ELSE [ok |-> TRUE, val |-> val]

\* std::to_string of an int
RECURSIVE to_string(_)
to_string(n) ==
    IF n < 0 THEN <<"-">> \o to_string(0 - n)
    ELSE IF n < 10 THEN <<Digits[n + 1]>>
    ELSE to_string(n \div 10) \o <<Digits[(n % 10) + 1]>>

\* raw_input.find("\r\n", pos): the first position at or after pos where
\* "\r\n" starts, 0 for npos
find(s, pos) ==
    IF \E j \in pos..(Len(s) - 1) : s[j] = CR /\ s[j + 1] = NL
    THEN CHOOSE j \in pos..(Len(s) - 1) :
            /\ s[j] = CR /\ s[j + 1] = NL
            /\ \A m \in pos..(j - 1) : ~(s[m] = CR /\ s[m + 1] = NL)
    ELSE 0

\* a substr that stops at the next "\r\n" and not after len characters
substr_ToLineEnd(s, pos, len) ==
    IF \E j \in pos..(Len(s) - 1) : s[j] = CR /\ s[j + 1] = NL
    THEN SubSeq(s, pos, (CHOOSE j \in pos..(Len(s) - 1) :
                            /\ s[j] = CR /\ s[j + 1] = NL
                            /\ \A m \in pos..(j - 1) : ~(s[m] = CR /\ s[m + 1] = NL)) - 1)
    ELSE SubSeq(s, pos, Len(s))

\* raw_input.substr(pos, len) for a position within the buffer; len is
\* converted to size_t, so that a negative len takes the rest of the buffer
substr(s, pos, len) ==
    IF len < 0 \/ pos + len - 1 > Len(s) THEN SubSeq(s, pos, Len(s))
    ELSE SubSeq(s, pos, pos + len - 1)

\* the for loop of BlinkServer::decodeCommand with i arguments left to read
RECURSIVE decodeArgs(_, _, _, _)
decodeArgs(raw, index, i, parsed) ==
    IF i <= 0 THEN [threw |-> FALSE, cmd |-> parsed]
    ELSE IF index > Len(raw) \/ raw[index] # "$" THEN [threw |-> FALSE, cmd |-> parsed]
    ELSE LET next == find(raw, index + 1)
         IN  IF next = 0 THEN [threw |-> FALSE, cmd |-> parsed]
             ELSE LET n == stoi(SubSeq(raw, index + 1, next - 1))
                      at == next + 2
                  IN  IF ~n.ok THEN [threw |-> TRUE, cmd |-> <<>>]
                      \* index + len in size_t: below 0 it wraps to a huge value
                      ELSE IF (at - 1) + n.val < 0 \/ (at - 1) + n.val > Len(raw)
                      THEN [threw |-> FALSE, cmd |-> parsed]
                      ELSE decodeArgs(raw, at + n.val + 2, i - 1,
                                      Append(parsed, substr(raw, at, n.val)))

\* BlinkServer::decodeCommand: the vector it returns, or threw when std::stoi
\* throws out of it
decodeCommand(raw_input) ==
    IF raw_input = <<>> \/ raw_input[1] # "*" THEN [threw |-> FALSE, cmd |-> <<>>]
    ELSE LET next == find(raw_input, 2)
         IN  IF next = 0 THEN [threw |-> FALSE, cmd |-> <<>>]
             ELSE LET n == stoi(SubSeq(raw_input, 2, next - 1))
                  IN  IF ~n.ok THEN [threw |-> TRUE, cmd |-> <<>>]
                      ELSE decodeArgs(raw_input, next + 2, n.val, <<>>)

encodeSimpleString(msg) == <<"+">> \o msg \o CRLF

encodeBulkString(msg) ==
    IF msg = <<>> THEN <<"$", "-", "1">> \o CRLF
    ELSE <<"$">> \o to_string(Len(msg)) \o CRLF \o msg \o CRLF

encodeInteger(value) == <<":">> \o to_string(value) \o CRLF

encodeError(msg) == <<"-", "E", "R", "R", " ">> \o msg \o CRLF

InvalidCommand == <<"I", "n", "v", "a", "l", "i", "d", " ", "C", "o", "m", "m", "a", "n", "d">>

UnknownCommand == <<"U", "n", "k", "n", "o", "w", "n", " ", "c", "o", "m", "m", "a", "n", "d">>

EmptyCommand == <<"E", "m", "p", "t", "y", " ", "c", "o", "m", "m", "a", "n", "d">>

Lower == <<"a", "b", "c", "d", "e", "f", "g", "h", "i", "j", "k", "l", "m",
           "n", "o", "p", "q", "r", "s", "t", "u", "v", "w", "x", "y", "z">>

Upper == <<"A", "B", "C", "D", "E", "F", "G", "H", "I", "J", "K", "L", "M",
           "N", "O", "P", "Q", "R", "S", "T", "U", "V", "W", "X", "Y", "Z">>

toupper(c) ==
    IF \E i \in DOMAIN Lower : Lower[i] = c
    THEN Upper[CHOOSE i \in DOMAIN Lower : Lower[i] = c]
    ELSE c

SET == <<"S", "E", "T">>

GET == <<"G", "E", "T">>

DEL == <<"D", "E", "L">>

CONFIG == <<"C", "O", "N", "F", "I", "G">>

\* BlinkServer::processSet: the outcomes [db, reply, call]
processSet(d, args) ==
    {[db |-> set(d, args[2], args[3]).db, reply |-> encodeSimpleString(<<"O", "K">>),
      call |-> "set"]}

\* BlinkServer::processGet
processGet(d, f, args) ==
    {[db |-> r.db,
      reply |-> IF r.ret = NULL THEN encodeBulkString(<<>>) ELSE encodeBulkString(r.ret),
      call |-> "get"] : r \in get(d, f, args[2])}

\* BlinkServer::processDel
processDel(d, args) ==
    {[db |-> del(d, args[2]).db,
      reply |-> encodeInteger(IF del(d, args[2]).ret THEN 1 ELSE 0),
      call |-> "del"]}

\* a handleCommand that routes GET and DEL whatever the number of elements
handleCommand_AnyArity(d, f, command) ==
    IF command = <<>> THEN {[db |-> d, reply |-> encodeError(EmptyCommand), call |-> "none"]}
    ELSE LET cmd == [i \in DOMAIN command[1] |-> toupper(command[1][i])]
         IN  IF cmd = SET /\ Len(command) = 3 THEN processSet(d, command)
             ELSE IF cmd = GET /\ Len(command) >= 2 THEN processGet(d, f, command)
             ELSE IF cmd = DEL /\ Len(command) >= 2 THEN processDel(d, command)
             ELSE IF cmd = CONFIG
             THEN {[db |-> d, reply |-> <<"*", "0">> \o CRLF, call |-> "none"]}
             ELSE {[db |-> d, reply |-> encodeError(UnknownCommand), call |-> "none"]}

\* BlinkServer::handleCommand: the outcomes [db, reply, call], call being the
\* engine operation the command was routed to
handleCommand(d, f, command) ==
    IF command = <<>> THEN {[db |-> d, reply |-> encodeError(EmptyCommand), call |-> "none"]}
    ELSE LET cmd == [i \in DOMAIN command[1] |-> toupper(command[1][i])]
         IN  IF cmd = SET /\ Len(command) = 3 THEN processSet(d, command)
             ELSE IF cmd = GET /\ Len(command) = 2 THEN processGet(d, f, command)
             ELSE IF cmd = DEL /\ Len(command) = 2 THEN processDel(d, command)
             ELSE IF cmd = CONFIG
             THEN {[db |-> d, reply |-> <<"*", "0">> \o CRLF, call |-> "none"]}
             ELSE {[db |-> d, reply |-> encodeError(UnknownCommand), call |-> "none"]}

\* the size of the buffer handleClientRead reads into
BUFFER_SIZE == 1024

-----------------------------------------------------------------------------
(* The buffers a client sends *)

\* a command as a RESP-2 array of bulk strings
RECURSIVE RespBulks(_)
RespBulks(args) ==
    IF args = <<>> THEN <<>>
    ELSE <<"$">> \o to_string(Len(Head(args))) \o CRLF \o Head(args) \o CRLF
         \o RespBulks(Tail(args))

RespArray(args) == <<"*">> \o to_string(Len(args)) \o CRLF \o RespBulks(args)

\* the commands a client encodes
Commands ==
    {<<SET, <<"a">>, <<"1">>>>, <<<<"g", "e", "t">>, <<"a">>>>, <<DEL, <<"a">>>>, <<CONFIG>>}

WellFormed == {RespArray(c) : c \in Commands}

\* a well-formed buffer cut short, with one byte lost, or with one byte replaced
Damaged(w) ==
    {SubSeq(w, 1, n) : n \in 1..(Len(w) - 1)}
    \cup {RemoveAt(w, i) : i \in DOMAIN w}
    \cup {[w EXCEPT ![i] = "x"] : i \in DOMAIN w}

\* buffers with a declared count or length that the payload does not bear out
Crafted ==
    {<<"*", "2">> \o CRLF \o <<"$", "3">> \o CRLF \o GET \o CRLF \o <<"f", "o", "o">> \o CRLF,
     <<"*", "3">> \o CRLF \o RespBulks(<<DEL, <<"a">>>>),
     <<"*", "2">> \o CRLF \o <<"$", "3">> \o CRLF \o GET \o <<"x", "x">> \o RespBulks(<<<<"a">>>>),
     <<"*", "1">> \o CRLF \o <<"$", "-", "1">> \o CRLF,
     <<"*", "-", "1">> \o CRLF,
     <<"*", "0">> \o CRLF}

Sent == WellFormed \cup Damaged(RespArray(<<SET, <<"a">>, <<"1">>>>)) \cup Crafted

\* the keys and values of the commands of SpecDispatch: a plain value, the
\* four letters NULL, the empty string, and a value that holds "\r\n"
KeysD == {<<"a">>, <<"b">>}

ValuesD == {<<"1">>, NULL, <<>>, <<"x", CR, NL, "y">>}

\* the commands a client encodes in SpecDispatch: the three verbs in upper
\* and lower case, wrong element counts, other verbs, CONFIG
CommandsD ==
    {<<SET, <<"a">>, v>> : v \in ValuesD}
    \cup {<<SET, <<"b">>, <<"1">>>>, <<<<"s", "e", "t">>, <<"b">>, <<"1">>>>}
    \cup {<<GET, k>> : k \in KeysD} \cup {<<DEL, k>> : k \in KeysD}
    \cup {<<<<"g", "e", "t">>, <<"a">>>>, <<<<"D", "e", "l">>, <<"a">>>>}
    \cup {<<GET>>, <<GET, <<"a">>, <<"b">>>>, <<SET, <<"a">>>>,
          <<SET, <<"a">>, <<"1">>, <<"1">>>>, <<DEL>>, <<DEL, <<"a">>, <<"b">>>>}
    \cup {<<<<"P", "I", "N", "G">>>>, <<<<"G", "E", "T", "X">>, <<"a">>>>,
          <<<<>>, <<"a">>>>, <<<<"x", CR, NL>>, <<"a">>, <<"1">>>>}
    \cup {<<CONFIG>>, <<CONFIG, GET, <<"x">>>>}

\* the RESP-2 encoding of each of them
Encoded == [c \in CommandsD |-> RespArray(c)]

SentD == {Encoded[c] : c \in CommandsD}

\* the server process as BlinkServer() leaves it, no client connected
ServerUp ==
    [running |-> TRUE, conn |-> "closed", input |-> None, cmd |-> <<>>,
     reply |-> None, call |-> "none"]

\* the threads that call the engine in SpecConc
Threads == {"t1", "t2"}

\* a thread that is in no call of the engine. In a get, pc is "upgrade"
\* between read_lock.unlock() and the unique lock; key is the key of the get,
\* valid whether `it` still points at an element, seen what store has held
\* for key since the call began ("NULL" for absent), ret what get returned.
Idle == [pc |-> "idle", key |-> None, valid |-> TRUE, seen |-> {}, ret |-> None]

\* what store holds for key, in the terms of get's result
Held(d, key) == IF key \in StoreKeys(d.store) THEN d.store[key] ELSE NULL

\* the records of the threads after a step of thread t, which leaves t with
\* record rec and the engine in state d2: each other thread that is inside a
\* get sees what d2 holds for its key, and its `it` dangles once the key is
\* not in store
Observe(t, rec, d2) ==
    [u \in Threads |->
        IF u = t THEN rec
        ELSE IF thr[u].pc = "upgrade"
        THEN [thr[u] EXCEPT !.seen = @ \cup {Held(d2, thr[u].key)},
                            !.valid = @ /\ thr[u].key \in StoreKeys(d2.store)]
        ELSE thr[u]]

\* the engine object as BlinkDB() leaves it on an empty file: store iterates
\* in order (nothing), the object is alive, the process has not exited and
\* the flush worker has taken no step on a destroyed object
EngUp == [order |-> <<>>, alive |-> TRUE, exited |-> FALSE, late |-> FALSE]

\* the iteration orders store may have after a call that took it from st,
\* iterated in order o, to st2: the same when no element came or went
NextOrders(o, st, st2) ==
    IF DOMAIN st2 = DOMAIN st THEN {o} ELSE Orderings(DOMAIN st2)

\* mutant: the file is opened for appending
persistToFileIn_Append(d, f, order, opened) ==
    [db |-> [d EXCEPT !.dirty = FALSE],
     file |-> IF opened
              THEN f \o Concat([i \in DOMAIN order |-> WriteRecord(order[i], d.store[order[i]])])
              ELSE f]

\* BlinkDB::persistToFile when store iterates in order and the ofstream opens
\* (opened) or fails to
persistToFileIn(d, f, order, opened) ==
    [db |-> [d EXCEPT !.dirty = FALSE],
     file |-> IF opened
              THEN Concat([i \in DOMAIN order |-> WriteRecord(order[i], d.store[order[i]])])
              ELSE f]

-----------------------------------------------------------------------------
(* The record of the last client call (not program state) *)

NoCall == [op |-> "none", key |-> None, val |-> None, ret |-> None, prev |-> None]

\* what a get records about the call before it: a set or del of the same key
PrevOf(key) ==
    IF last.key = key /\ last.op \in {"set", "del"} THEN last.op ELSE None

SetCall(key, value) ==
    [op |-> "set", key |-> key, val |-> value, ret |-> None, prev |-> None]

GetCall(key, ret) ==
    [op |-> "get", key |-> key, val |-> IF PrevOf(key) = "set" THEN last.val ELSE None,
     ret |-> ret, prev |-> PrevOf(key)]

DelCall(key, ret) ==
    [op |-> "del", key |-> key, val |-> None, ret |-> ret, prev |-> None]

\* a call of persistToFile on file f: whether it wrote, the file before it,
\* and whether the call before it was a persistToFile that wrote
FlushCall(f, opened) ==
    [op |-> "flush", key |-> None, val |-> f,
     ret |-> IF opened THEN "written" ELSE "failed",
     prev |-> IF last.op = "flush" /\ last.ret = "written" THEN "flush" ELSE None]

DestroyCall == [op |-> "destroy", key |-> None, val |-> None, ret |-> None, prev |-> None]

-----------------------------------------------------------------------------
(* The load balancer process, the connections of the server, db_mutex and   *)
(* the executions of persistToFile, as they are after construction.         *)

\* LoadBalancer::LoadBalancer: current_server(0), and no connection accepted
LoadBalancerUp == [current_server |-> 0, children |-> <<>>]

\* the client connections the server may accept
Conns == {"c1", "c2"}

\* a connection before accept(): nothing read from it, nothing written to it
NotAccepted == [state |-> "new", log |-> <<>>]

\* db_mutex held by nobody
Unlocked == [shared |-> {}, unguarded |-> {}]

\* the threads that may run persistToFile
Flushers == {"worker", "async", "dtor"}

\* no persistToFile in progress, none completed
FlushIdle ==
    [pc |-> "idle", out |-> <<>>, visited |-> {}, snaps |-> {}, unlinked |-> FALSE,
     wrote |-> None]

NoFlush == [by |-> [f \in Flushers |-> FlushIdle], ops |-> 0]

hvars == <<h_val, h_flushed, h_set>>

xvars == <<lb, net, mtx, fl>>

evars == <<eng, thr, xvars>>

-----------------------------------------------------------------------------
(* Spec: one run of the process, started with no persistence file: a        *)
(* single-threaded driver calls the engine, and the flush worker runs       *)
(* between two calls.                                                       *)

Init ==
    /\ db = loadFromFile(EmptyDB, <<>>)
    /\ file = <<>>
    /\ last = NoCall
    /\ h_val = [k \in Keys |-> None]
    /\ h_flushed = {}
    /\ srv = ServerUp
    /\ eng = EngUp
    /\ thr = [t \in Threads |-> Idle]
    /\ lb = LoadBalancerUp
    /\ net = [c \in Conns |-> NotAccepted]
    /\ mtx = Unlocked
    /\ fl = NoFlush
    /\ h_set = [k \in Keys |-> None]

Set(key, value) ==
    /\ db' = set(db, key, value).db
    /\ last' = SetCall(key, value)
    /\ UNCHANGED <<file, hvars, evars, srv>>

Get(key) ==
    /\ \E r \in get(db, file, key) : db' = r.db /\ last' = GetCall(key, r.ret)
    /\ UNCHANGED <<file, hvars, evars, srv>>

Del(key) ==
    /\ db' = del(db, key).db
    /\ last' = DelCall(key, del(db, key).ret)
    /\ UNCHANGED <<file, hvars, evars, srv>>

\* one round of flushToDiskPeriodically that finds dirty set
Flush ==
    /\ db.dirty
    /\ \E r \in persistToFile(db, file) : db' = r.db /\ file' = r.file
    /\ UNCHANGED <<last, hvars, evars, srv>>

Next ==
    \/ \E k \in Keys, v \in Values : Set(k, v)
    \/ \E k \in Keys : Get(k)
    \/ \E k \in Keys : Del(k)
    \/ Flush

Spec == Init /\ [][Next]_vars

-----------------------------------------------------------------------------
(* SpecHist: the same run, with the history of evictions kept.              *)
(* h_val[k] is the value k held when it was evicted, while k is evicted and *)
(* not resident; h_flushed holds the evicted keys for which a rewrite of    *)
(* the file has completed since their eviction.                             *)

\* the keys that a step from engine state d to d2 evicted
NewlyEvicted(d, d2) ==
    {k \in StoreKeys(d.store) \ StoreKeys(d2.store) : k \in d2.evicted_keys}

\* the history after a client call on key that took the engine from d to d2
HistCall(d, d2, key) ==
    /\ h_val' = [k \in Keys |->
                    IF k \in NewlyEvicted(d, d2) THEN d.store[k]
                    ELSE IF k = key \/ k \in StoreKeys(d2.store) THEN None
                    ELSE h_val[k]]
    /\ h_flushed' = (h_flushed \ NewlyEvicted(d, d2)) \ ({key} \cup StoreKeys(d2.store))

SetH(key, value) ==
    /\ db' = set(db, key, value).db
    /\ last' = SetCall(key, value)
    /\ HistCall(db, db', key)
    /\ UNCHANGED <<file, srv, evars, h_set>>

GetH(key) ==
    /\ \E r \in get(db, file, key) : db' = r.db /\ last' = GetCall(key, r.ret)
    /\ HistCall(db, db', key)
    /\ UNCHANGED <<file, srv, evars, h_set>>

DelH(key) ==
    /\ db' = del(db, key).db
    /\ last' = DelCall(key, del(db, key).ret)
    /\ HistCall(db, db', key)
    /\ UNCHANGED <<file, srv, evars, h_set>>

FlushH ==
    /\ db.dirty
    /\ \E r \in persistToFile(db, file) : db' = r.db /\ file' = r.file
    /\ h_flushed' = IF file' \in StoreLines(db.store)
                    THEN {k \in Keys : h_val[k] # None} ELSE h_flushed
    /\ UNCHANGED <<last, h_val, h_set, srv, evars>>

NextH ==
    \/ \E k \in Keys, v \in Values : SetH(k, v)
    \/ \E k \in Keys : GetH(k)
    \/ \E k \in Keys : DelH(k)
    \/ FlushH

SpecHist == Init /\ [][NextH]_vars

-----------------------------------------------------------------------------
(* SpecRestart: runs of the process one after the other over the same file. *)
(* A run ends orderly (~BlinkDB runs) or is killed; the next run starts     *)
(* with BlinkDB() loading the file that is left. No call record is kept.    *)

SetR(key, value) ==
    /\ db' = set(db, key, value).db
    /\ UNCHANGED <<file, last, hvars, evars, srv>>

GetR(key) ==
    /\ \E r \in get(db, file, key) : db' = r.db
    /\ UNCHANGED <<file, last, hvars, evars, srv>>

DelR(key) ==
    /\ db' = del(db, key).db
    /\ UNCHANGED <<file, last, hvars, evars, srv>>

FlushR ==
    /\ db.dirty
    /\ \E r \in persistToFile(db, file) : db' = r.db /\ file' = r.file
    /\ UNCHANGED <<last, hvars, evars, srv>>

\* ~BlinkDB at the end of an orderly run, and BlinkDB() in the next process
Restart ==
    /\ \E r \in (IF db.dirty THEN persistToFile(db, file)
                 ELSE {[db |-> db, file |-> file]}) :
        /\ file' = r.file
        /\ db' = loadFromFile(EmptyDB, r.file)
    /\ UNCHANGED <<last, hvars, evars, srv>>

\* the process is killed, and BlinkDB() runs in the next process
Crash ==
    /\ db' = loadFromFile(EmptyDB, file)
    /\ UNCHANGED <<file, last, hvars, evars, srv>>

\* the keys the driver sets in SpecRestart
KeysR == {<<"a">>, <<"b">>}

NextR ==
    \/ \E k \in KeysR, v \in Values : SetR(k, v)
    \/ \E k \in Keys : GetR(k)
    \/ \E k \in Keys : DelR(k)
    \/ FlushR
    \/ Restart
    \/ Crash

SpecRestart == Init /\ [][NextR]_vars

\* read() into the buffer of handleClientRead, and decodeCommand on what was
\* read, for each buffer a client sends
Reads ==
    [sent \in Sent \cup SentD |->
        LET raw_input == SubSeq(sent, 1, IF Len(sent) < BUFFER_SIZE THEN Len(sent)
                                         ELSE BUFFER_SIZE)
        IN  [raw_input |-> raw_input, command |-> decodeCommand(raw_input)]]

-----------------------------------------------------------------------------
(* SpecServer: one run of the server process with one client connection.    *)
(* srv.input is the buffer of the last read, srv.cmd what decodeCommand     *)
(* returned for it, srv.reply what was written back and srv.call the engine *)
(* operation it reached.                                                    *)

\* accept() of a new connection in handleClientConnections
Accept ==
    /\ srv.running /\ srv.conn = "closed"
    /\ srv' = [srv EXCEPT !.conn = "open"]
    /\ UNCHANGED <<db, file, last, hvars, evars>>

\* handleClientRead when read() returns 0 or fails
ClientClose ==
    /\ srv.running /\ srv.conn = "open"
    /\ srv' = [srv EXCEPT !.conn = "closed"]
    /\ UNCHANGED <<db, file, last, hvars, evars>>

\* handleClientRead when read() returns the bytes sent. An exception out of
\* decodeCommand unwinds to main, which destroys the server and returns 1.
ClientRead(sent) ==
    /\ srv.running /\ srv.conn = "open" /\ sent # <<>>
    /\ LET raw_input == Reads[sent].raw_input
           command == Reads[sent].command
       IN  IF command.threw
           THEN /\ \E r \in (IF db.dirty THEN persistToFile(db, file)
                             ELSE {[db |-> db, file |-> file]}) :
                    db' = r.db /\ file' = r.file
                /\ srv' = [running |-> FALSE, conn |-> "closed", input |-> raw_input,
                           cmd |-> <<>>, reply |-> None, call |-> "none"]
           ELSE IF command.cmd = <<>>
           THEN /\ srv' = [srv EXCEPT !.input = raw_input, !.cmd = <<>>,
                                      !.reply = encodeError(InvalidCommand), !.call = "none"]
                /\ UNCHANGED <<db, file>>
           ELSE /\ \E r \in handleCommand(db, file, command.cmd) :
                    /\ db' = r.db
                    /\ srv' = [srv EXCEPT !.input = raw_input, !.cmd = command.cmd,
                                          !.reply = r.reply, !.call = r.call]
                /\ UNCHANGED file
    /\ UNCHANGED <<last, hvars, evars>>

FlushS ==
    /\ srv.running /\ db.dirty
    /\ \E r \in persistToFile(db, file) : db' = r.db /\ file' = r.file
    /\ UNCHANGED <<last, hvars, evars, srv>>

NextS ==
    \/ Accept
    \/ ClientClose
    \/ \E sent \in Sent : ClientRead(sent)
    \/ FlushS

SpecServer == Init /\ [][NextS]_vars

-----------------------------------------------------------------------------
(* SpecDispatch: the same server process, its client sending well-formed    *)
(* encodings of the commands of CommandsD only.                             *)

NextD ==
    \/ Accept
    \/ ClientClose
    \/ \E sent \in SentD : ClientRead(sent)
    \/ FlushS

SpecDispatch == Init /\ [][NextD]_vars

-----------------------------------------------------------------------------
(* SpecFlush: one run of a process that holds an engine, with the iteration *)
(* order of store kept, every call of persistToFile recorded in last, and   *)
(* the end of the engine: ~BlinkDB, then the exit of the process. The flush *)
(* worker is a detached thread that loops for as long as the process lives. *)

KeysF == {<<"a">>, <<"b">>, <<"c">>}

ValuesF == {<<"1">>, <<"2">>}

SetF(key, value) ==
    /\ eng.alive
    /\ db' = set(db, key, value).db
    /\ \E o \in NextOrders(eng.order, db.store, db'.store) : eng' = [eng EXCEPT !.order = o]
    /\ last' = SetCall(key, value)
    /\ UNCHANGED <<file, hvars, srv, xvars, thr>>

GetF(key) ==
    /\ eng.alive
    /\ \E r \in get(db, file, key) : db' = r.db /\ last' = GetCall(key, r.ret)
    /\ \E o \in NextOrders(eng.order, db.store, db'.store) : eng' = [eng EXCEPT !.order = o]
    /\ UNCHANGED <<file, hvars, srv, xvars, thr>>

DelF(key) ==
    /\ eng.alive
    /\ db' = del(db, key).db
    /\ \E o \in NextOrders(eng.order, db.store, db'.store) : eng' = [eng EXCEPT !.order = o]
    /\ last' = DelCall(key, del(db, key).ret)
    /\ UNCHANGED <<file, hvars, srv, xvars, thr>>

\* one round of flushToDiskPeriodically on the live engine that finds dirty set
WorkerFlush ==
    /\ eng.alive /\ db.dirty
    /\ \E opened \in BOOLEAN :
        /\ db' = persistToFileIn(db, file, eng.order, opened).db
        /\ file' = persistToFileIn(db, file, eng.order, opened).file
        /\ last' = FlushCall(file, opened)
    /\ UNCHANGED <<hvars, srv, xvars, eng, thr>>

\* flushToDiskAsync: persistToFile, dirty or not
FlushAsync ==
    /\ eng.alive
    /\ \E opened \in BOOLEAN :
        /\ db' = persistToFileIn(db, file, eng.order, opened).db
        /\ file' = persistToFileIn(db, file, eng.order, opened).file
        /\ last' = FlushCall(file, opened)
    /\ UNCHANGED <<hvars, srv, xvars, eng, thr>>

\* ~BlinkDB: the last flush when dirty; nothing stops the flush worker
Destroy ==
    /\ eng.alive
    /\ IF db.dirty
       THEN \E opened \in BOOLEAN :
               /\ db' = persistToFileIn(db, file, eng.order, opened).db
               /\ file' = persistToFileIn(db, file, eng.order, opened).file
       ELSE UNCHANGED <<db, file>>
    /\ eng' = [eng EXCEPT !.alive = FALSE]
    /\ last' = DestroyCall
    /\ UNCHANGED <<hvars, srv, xvars, thr>>

\* one round of flushToDiskPeriodically after ~BlinkDB has returned and
\* before the process has exited: the worker reads dirty and store in the
\* destroyed object, and either leaves the file or rewrites it from what the
\* memory of the object holds
WorkerLate ==
    /\ ~eng.alive /\ ~eng.exited
    /\ \E opened \in BOOLEAN :
        file' = persistToFileIn(db, file, eng.order, opened).file
    /\ eng' = [eng EXCEPT !.late = TRUE]
    /\ UNCHANGED <<db, last, hvars, srv, xvars, thr>>

\* the process exits after ~BlinkDB, and its threads end with it
ProcessExit ==
    /\ ~eng.alive /\ ~eng.exited
    /\ eng' = [eng EXCEPT !.exited = TRUE]
    /\ UNCHANGED <<db, file, last, hvars, srv, xvars, thr>>

NextF ==
    \/ \E k \in KeysF, v \in ValuesF : SetF(k, v)
    \/ \E k \in KeysF : GetF(k)
    \/ \E k \in KeysF : DelF(k)
    \/ WorkerFlush
    \/ FlushAsync
    \/ Destroy
    \/ WorkerLate
    \/ ProcessExit

SpecFlush == Init /\ [][NextF]_vars

-----------------------------------------------------------------------------
(* SpecConc: one run of a process in which the threads of Threads call the  *)
(* engine. set and del hold the unique lock from start to end and are one   *)
(* step each; get is one step under the shared lock and, when it found the  *)
(* key, a second step under the unique lock, other threads' calls running   *)
(* between the two.                                                         *)

KeysC == {<<"a">>, <<"b">>}

SetC(t, key, value) ==
    /\ thr[t].pc # "upgrade"
    /\ db' = set(db, key, value).db
    /\ thr' = Observe(t, Idle, db')
    /\ UNCHANGED <<file, last, hvars, srv, xvars, eng>>

DelC(t, key) ==
    /\ thr[t].pc # "upgrade"
    /\ db' = del(db, key).db
    /\ thr' = Observe(t, Idle, db')
    /\ UNCHANGED <<file, last, hvars, srv, xvars, eng>>

\* get(key) by thread t up to read_lock.unlock()
GetBeginC(t, key) ==
    /\ thr[t].pc # "upgrade"
    /\ db' = getFind(db, file, key).db
    /\ thr' = Observe(t, [pc |-> IF getFind(db, file, key).found THEN "upgrade" ELSE "done",
                          key |-> key, valid |-> TRUE,
                          seen |-> {Held(db, key), Held(db', key)},
                          ret |-> IF getFind(db, file, key).found THEN None ELSE NULL],
                      db')
    /\ UNCHANGED <<file, last, hvars, srv, xvars, eng>>

\* the rest of that get, once thread t has the unique lock
GetEndC(t) ==
    /\ thr[t].pc = "upgrade"
    /\ \E r \in getTouch(db, thr[t].key, thr[t].valid) :
        /\ db' = r.db
        /\ thr' = Observe(t, [thr[t] EXCEPT !.pc = "done", !.ret = r.ret], db')
    /\ UNCHANGED <<file, last, hvars, srv, xvars, eng>>

FlushC ==
    /\ db.dirty
    /\ \E r \in persistToFile(db, file) : db' = r.db /\ file' = r.file
    /\ UNCHANGED <<last, hvars, srv, xvars, eng, thr>>

NextC ==
    \/ \E t \in Threads, k \in KeysC, v \in Values : SetC(t, k, v)
    \/ \E t \in Threads, k \in KeysC : DelC(t, k)
    \/ \E t \in Threads, k \in KeysC : GetBeginC(t, k)
    \/ \E t \in Threads : GetEndC(t)
    \/ FlushC

SpecConc == Init /\ [][NextC]_vars

-----------------------------------------------------------------------------
(* Properties *)

Resident == StoreKeys(db.store)

\* the keys that have a line in the persistence file, as the readers see it
FileKeys == {ReadRecords(file, 1)[i][1] : i \in DOMAIN ReadRecords(file, 1)}

\* the elements of sequence s that are in set S, in the order of s
Restrict(s, S) == SelectSeq(s, LAMBDA x : x \in S)

\* C1: a get(k) issued right after set(k, v) returns v.
C1_GetAfterSetReturnsValue ==
    (last.op = "get" /\ last.prev = "set") => last.ret = last.val

\* a get has followed a set of the same key, in an engine that has evicted
C1_Witness ==
    /\ last.op = "get" /\ last.prev = "set"
    /\ last.ret = last.val
    /\ db.evicted_keys # {}

\* C2: del(k) leaves k in neither store nor evicted_keys, and a get(k) issued
\* right after del(k) returns "NULL", whatever the persistence file holds.
C2_DelLeavesKeyAbsent ==
    /\ last.op = "del" => (last.key \notin Resident /\ last.key \notin db.evicted_keys)
    /\ (last.op = "get" /\ last.prev = "del") => last.ret = NULL

\* C3: once a rewrite of the file has completed after key k was evicted holding
\* value v, get(k) returns v.
C3_EvictedKeyRestoredAfterFlush ==
    [][\A k \in Keys : (k \in h_flushed /\ GetH(k)) => last'.ret = h_val[k]]_vars

\* C4: every key in evicted_keys has a record in the persistence file.
C4_EvictedKeysOnDisk == db.evicted_keys \subseteq FileKeys

\* C5: no key is both in store and in evicted_keys.
C5_ResidentOrEvicted == Resident \cap db.evicted_keys = {}

\* C6: between two calls store holds at most max_cache_size keys, in an engine
\* started empty or from a file that a flush wrote.
C6_ResidentWithinCapacity == Cardinality(Resident) <= max_cache_size

C8_SetEvictsLruTail ==
    \A k \in Keys, v \in Values :
        Cardinality(Resident \cup {k}) > max_cache_size =>
            LET d2 == set(db, k, v).db
                tail == db.lru_keys[Len(db.lru_keys)]
            IN /\ StoreKeys(d2.store) = (Resident \cup {k}) \ {tail}
               /\ tail \in Resident
               /\ tail \notin Range(d2.lru_keys)
               /\ d2.evicted_keys = db.evicted_keys \cup {tail}

\* the engine after SET a, SET b, SET c with capacity for the last two
C8_Witness ==
    /\ last.op = "set"
    /\ db.lru_keys[1] = last.key
    /\ Len(db.lru_keys) = max_cache_size
    /\ Cardinality(db.evicted_keys) = 1
    /\ db.evicted_keys \cap Resident = {}
    /\ file = <<>>

\* the order of the keys other than k that stay resident is the same in lru_keys
\* of engine state d2 as in lru_keys of engine state d
SameOrderOfOthers(d, d2, k) ==
    LET others == StoreKeys(d2.store) \ {k} IN
    Restrict(d2.lru_keys, others) = Restrict(d.lru_keys, others)

IsDecimal(s) == s # <<>> /\ \A i \in DOMAIN s : IsDigit(s[i])

\* what is wrong with the RESP framing of the arguments of raw from position
\* index on, i arguments being still declared ("ok" when nothing is)
RECURSIVE FramingArgs(_, _, _)
FramingArgs(raw, index, i) ==
    IF i = 0 THEN "ok"
    ELSE IF index > Len(raw) THEN "fewer_arguments"
    ELSE IF raw[index] # "$" THEN "wrong_prefix"
    ELSE LET next == find(raw, index + 1)
         IN  IF next = 0 THEN "missing_terminator"
             ELSE IF ~IsDecimal(SubSeq(raw, index + 1, next - 1)) THEN "non_numeric_length"
             ELSE LET len == DigitRun(raw, index + 1, 0).val
                      at == next + 2
                  IN  IF (at - 1) + len > Len(raw) THEN "short_payload"
                      ELSE IF at + len + 1 > Len(raw) \/ SubSeq(raw, at + len, at + len + 1) # CRLF
                      THEN "missing_terminator"
                      ELSE FramingArgs(raw, at + len + 2, i - 1)

\* what is wrong with the RESP framing of the buffer raw
Framing(raw) ==
    IF raw = <<>> \/ raw[1] # "*" THEN "no_star"
    ELSE LET next == find(raw, 2)
         IN  IF next = 0 THEN "missing_terminator"
             ELSE IF ~IsDecimal(SubSeq(raw, 2, next - 1)) THEN "non_numeric_count"
             ELSE FramingArgs(raw, next + 2, DigitRun(raw, 2, 0).val)

MalformedFraming ==
    {"no_star", "non_numeric_count", "wrong_prefix", "short_payload",
     "missing_terminator", "fewer_arguments"}

\* C10: after a read of a buffer whose RESP framing is malformed (no leading
\* '*', non-numeric count, an argument not starting with '$', a payload
\* shorter than its declared length, a missing \r\n, fewer arguments than
\* declared), the parser has returned the empty vector, the server has
\* replied -ERR Invalid Command and has called no engine operation.
C10_MalformedYieldsInvalidCommand ==
    (srv.input # None /\ Framing(srv.input) \in MalformedFraming)
        => /\ srv.running
           /\ srv.cmd = <<>>
           /\ srv.reply = encodeError(InvalidCommand)
           /\ srv.call = "none"

\* C11: no protocol error stops the server: after a read of a buffer whose
\* RESP framing is wrong in any way, the event loop is still running (and so
\* is able to answer the next command on that connection).
C11_ErrorsKeepServerUp ==
    (srv.input # None /\ Framing(srv.input) # "ok") => srv.running

\* the bulk string that carries v, and the null bulk string
BulkOf(v) == <<"$">> \o to_string(Len(v)) \o CRLF \o v \o CRLF

NullBulk == <<"$", "-", "1">> \o CRLF

\* C12: the reply to GET k is the bulk string carrying the stored value when
\* k is resident with a non-empty value, and the null bulk string when k is
\* resident with an empty value or is neither resident nor marked evicted.
C12_GetReplyCarriesValue ==
    \A k \in KeysD : \A r \in handleCommand(db, file, <<GET, k>>) :
        /\ (k \in Resident /\ db.store[k] # <<>>) => r.reply = BulkOf(db.store[k])
        /\ (k \in Resident /\ db.store[k] = <<>>) => r.reply = NullBulk
        /\ (k \notin Resident /\ k \notin db.evicted_keys) => r.reply = NullBulk

\* the verb of a command in upper case
VerbOf(c) == [i \in DOMAIN c[1] |-> toupper(c[1][i])]

\* a command that has no handler: another verb, or a wrong number of elements
NoHandler(c) ==
    \/ VerbOf(c) \notin {SET, GET, DEL, CONFIG}
    \/ VerbOf(c) = SET /\ Len(c) # 3
    \/ VerbOf(c) \in {GET, DEL} /\ Len(c) # 2

\* C14: a command whose verb, compared without case, is none of SET, GET,
\* DEL, CONFIG, or a SET of other than 3 elements, or a GET or DEL of other
\* than 2, is answered -ERR Unknown command and leaves the engine as it was.
C14_UnknownCommandLeavesEngine ==
    \A c \in CommandsD :
        NoHandler(c) =>
            handleCommand(db, file, c)
                = {[db |-> db, reply |-> <<"-", "E", "R", "R", " ">> \o UnknownCommand \o CRLF,
                    call |-> "none"]}

\* a command without handler was answered by an engine that holds a key
C14_Witness ==
    /\ srv.cmd # <<>> /\ NoHandler(srv.cmd)
    /\ srv.reply = <<"-", "E", "R", "R", " ">> \o UnknownCommand \o CRLF
    /\ Resident # {} /\ db.dirty

\* C16: RESP round trip: the decoder applied to the RESP-2 array encoding of
\* a command of one or more byte strings, some holding "\r\n" or nothing,
\* returns exactly these byte strings.
C16_RespRoundTrip ==
    \A c \in CommandsD : srv.input = Encoded[c] => (srv.running /\ srv.cmd = c)

\* the encoding of a SET whose value holds "\r\n" has been read and decoded
C16_Witness ==
    /\ srv.input = Encoded[<<SET, <<"a">>, <<"x", CR, NL, "y">>>>]
    /\ srv.cmd = <<SET, <<"a">>, <<"x", CR, NL, "y">>>>
    /\ srv.call = "set"

\* C13: del(k) returns true (reply :1) exactly when k is resident at the
\* call; after a del(k) that returned true k is in neither store nor
\* lru_keys, and a second del(k) right after it returns false (reply :0).
C13_DelReportsResident ==
    \A k \in Keys :
        LET r == del(db, k)
            reply == (CHOOSE o \in processDel(db, <<DEL, k>>) : TRUE).reply
        IN  /\ r.ret = (k \in Resident)
            /\ reply = IF k \in Resident THEN <<":", "1">> \o CRLF ELSE <<":", "0">> \o CRLF
            /\ r.ret => /\ k \notin StoreKeys(r.db.store)
                        /\ k \notin Range(r.db.lru_keys)
                        /\ ~del(r.db, k).ret
                        /\ processDel(r.db, <<DEL, k>>)
                              = {[db |-> r.db, reply |-> <<":", "0">> \o CRLF, call |-> "del"]}

\* a del has returned true in an engine that has evicted, and its key is gone
C13_Witness ==
    /\ last.op = "del" /\ last.ret = TRUE
    /\ last.key \notin Resident /\ last.key \notin Range(db.lru_keys)
    /\ db.evicted_keys # {} /\ Resident # {}

\* a string free of tab and newline
Clean(str) == \A i \in DOMAIN str : str[i] \notin {TAB, NL}

CleanStore == \A k \in Resident : Clean(k) /\ Clean(db.store[k])

\* C15: whenever the resident keys and values are free of tab and newline,
\* a flush that writes the file followed by a restart gives an engine whose
\* store equals the store at flush time: get returns v for every key
\* resident with v at the flush and NULL for every other key.
C15_FlushRestartKeepsStore ==
    CleanStore =>
        \A p \in persistToFile(db, file) :
            p.file \in StoreLines(db.store) =>
                LET d2 == loadFromFile(EmptyDB, p.file)
                IN  /\ d2.store = db.store
                    /\ \A k \in Keys : \A r \in get(d2, p.file, k) :
                          r.ret = IF k \in Resident THEN db.store[k] ELSE NULL

\* the engine as a restart leaves it after a flush of two clean keys
C15_Witness ==
    /\ CleanStore /\ Cardinality(Resident) = 2
    /\ ~db.dirty /\ db.evicted_keys = {}
    /\ file \in StoreLines(db.store)
    /\ db = loadFromFile(EmptyDB, file)

\* C17: flush is idempotent: a persistToFile that follows a persistToFile
\* that wrote, with no set, get or del between the two, leaves the file with
\* the content it had, and leaves dirty false.
C17_FlushIdempotent ==
    (last.op = "flush" /\ last.prev = "flush") => (file = last.val /\ ~db.dirty)

\* two persistToFile in a row have written the file of an engine that holds
\* two keys and has evicted one
C17_Witness ==
    /\ last.op = "flush" /\ last.prev = "flush" /\ last.ret = "written"
    /\ Cardinality(Resident) = 2 /\ db.evicted_keys # {}
    /\ file # <<>>

\* C18: when a rewrite of the file fails, dirty remains set.
C18_FailedRewriteStaysDirty ==
    (last.op = "flush" /\ last.ret = "failed") => db.dirty

\* C19: after ~BlinkDB has returned the flush worker takes no further step.
C19_WorkerStopsAtTeardown == ~eng.alive => ~eng.late

\* C20: a get(k) that has returned, other threads calling set and del while
\* it ran, has returned a value that store held for k at some instant
\* between its call and its return, or "NULL" if k was absent at such an
\* instant.
C20_GetReturnsHeldValue ==
    \A t \in Threads : thr[t].pc = "done" => thr[t].ret \in thr[t].seen

\* C28: a get(k) for a key k that is in evicted_keys and has no record in the
\* persistence file returns "NULL" and removes k from evicted_keys.
C28_StaleMarkerDropped ==
    \A k \in db.evicted_keys :
        (k \notin Resident /\ k \notin FileKeys) =>
            \A r \in get(db, file, k) : r.ret = NULL /\ k \notin r.db.evicted_keys

\* C30: no set and no del is executed on behalf of a buffer whose RESP
\* framing is malformed or cut short (as with a declared count larger than
\* the number of arguments present).
C30_MalformedNeverMutates ==
    (srv.input # None /\ Framing(srv.input) \in MalformedFraming)
        => srv.call \notin {"set", "del"}

-----------------------------------------------------------------------------
(* SpecBalancer: one run of the load balancer process. start() accepts a    *)
(* connection and forks; the child runs handleClient on its own copy of the *)
(* LoadBalancer object and exits, the parent goes back to poll.             *)
(* lb.current_server is the member of the parent process; lb.children holds *)
(* one record per accepted connection, in the order of accept().            *)

MaxConns == 3

MaxChunks == 1

Backends == {"server1", "server2"}

\* the selection at the head of connectToBackend, on the current_server of
\* the process that runs it: the backend picked, and current_server after it
PickBackend(current_server) ==
    IF current_server = 0
    THEN [backend |-> "server1", current_server |-> 1]
    ELSE [backend |-> "server2", current_server |-> 0]

\* the child process right after fork(): a copy of the parent's memory
Forked(current_server) ==
    [pc |-> "connect", current_server |-> current_server, backend |-> None,
     up |-> 0, down |-> 0]

\* accept() followed by fork() in start(); the parent closes its copy of the
\* client socket and loops. When fork() fails no child exists and the parent
\* closes the client socket all the same.
AcceptFork(forked) ==
    /\ Len(lb.children) < MaxConns
    /\ lb' = [lb EXCEPT !.children =
                 Append(@, IF forked THEN Forked(lb.current_server)
                           ELSE [Forked(lb.current_server) EXCEPT !.pc = "dropped"])]
    /\ UNCHANGED <<db, file, last, hvars, srv, eng, thr, net, mtx, fl>>

\* connectToBackend in child i, called first thing by handleClient: the
\* backend is picked and the child's current_server toggled, then connect();
\* on failure handleClient closes the client socket and the child exits
ChildConnect(i, connected) ==
    /\ lb.children[i].pc = "connect"
    /\ LET pick == PickBackend(lb.children[i].current_server)
       IN  lb' = [lb EXCEPT !.children[i] =
                     [@ EXCEPT !.pc = IF connected THEN "relay" ELSE "exited",
                               !.current_server = pick.current_server,
                               !.backend = IF connected THEN pick.backend ELSE None]]
    /\ UNCHANGED <<db, file, last, hvars, srv, eng, thr, net, mtx, fl>>

\* one round of the poll loop of handleClient in child i: a chunk read from
\* the client is written to the backend, or one from the backend to the client
ChildRelay(i, from_client) ==
    /\ lb.children[i].pc = "relay"
    /\ IF from_client
       THEN /\ lb.children[i].up < MaxChunks
            /\ lb' = [lb EXCEPT !.children[i].up = @ + 1]
       ELSE /\ lb.children[i].down < MaxChunks
            /\ lb' = [lb EXCEPT !.children[i].down = @ + 1]
    /\ UNCHANGED <<db, file, last, hvars, srv, eng, thr, net, mtx, fl>>

\* read() returns 0 or fails on either side: handleClient closes both
\* sockets and the child calls exit(0)
ChildExit(i) ==
    /\ lb.children[i].pc = "relay"
    /\ lb' = [lb EXCEPT !.children[i].pc = "exited"]
    /\ UNCHANGED <<db, file, last, hvars, srv, eng, thr, net, mtx, fl>>

NextB ==
    \/ \E forked \in BOOLEAN : AcceptFork(forked)
    \/ \E i \in DOMAIN lb.children, connected \in BOOLEAN : ChildConnect(i, connected)
    \/ \E i \in DOMAIN lb.children, from_client \in BOOLEAN : ChildRelay(i, from_client)
    \/ \E i \in DOMAIN lb.children : ChildExit(i)

SpecBalancer == Init /\ [][NextB]_vars

\* the connections that reached a backend, in the order they were accepted
RECURSIVE Forwarded(_)
Forwarded(children) ==
    IF children = <<>> THEN <<>>
    ELSE LET rest == Forwarded(SubSeq(children, 1, Len(children) - 1))
             child == children[Len(children)]
         IN  IF child.backend \in Backends THEN Append(rest, child.backend) ELSE rest

\* C21: connections accepted one after the other are forwarded to different
\* backends, in turn: server1, server2, server1, ...
C21_RoundRobin ==
    LET forwarded == Forwarded(lb.children)
    IN  \A i \in 1..(Len(forwarded) - 1) : forwarded[i] # forwarded[i + 1]

-----------------------------------------------------------------------------
(* SpecOrder: one run of the server process with the connections of Conns.  *)
(* The epoll loop is one thread: it takes one ready descriptor at a time    *)
(* and runs accept() or handleClientRead on it to the end. net[c].log is    *)
(* what the server did on connection c, in order: each read() with the      *)
(* bytes it returned and each write() with the reply, numbered per          *)
(* connection.                                                              *)

MaxReads == 2

\* the buffers the clients of SpecOrder send
SentO ==
    LET w == RespArray(<<SET, <<"a">>, <<"1">>>>)
    IN  {w, RespArray(<<<<"g", "e", "t">>, <<"a">>>>), RespArray(<<CONFIG>>),
         SubSeq(w, 1, 1), [w EXCEPT ![2] = "x"]}

\* the number of read() calls that returned data on a connection
ReadCount(log) == Cardinality({i \in DOMAIN log : log[i].ev = "read"})

\* read() at the head of handleClientRead
ReadEvent(log, raw_input) ==
    [ev |-> "read", n |-> ReadCount(log) + 1, data |-> raw_input]

ReplyLost(log, raw_input, reply) == Append(log, ReadEvent(log, raw_input))

\* handleClientRead from read() to write(): the reply to what was read is
\* written to the same descriptor before the handler returns
Exchange(log, raw_input, reply) ==
    log \o <<ReadEvent(log, raw_input),
             [ev |-> "write", n |-> ReadCount(log) + 1, data |-> reply]>>

\* accept() in handleClientConnections, the descriptor added to epoll
AcceptO(c) ==
    /\ srv.running /\ net[c].state = "new"
    /\ net' = [net EXCEPT ![c].state = "open"]
    /\ UNCHANGED <<db, file, last, hvars, srv, eng, thr, lb, mtx, fl>>

\* handleClientRead when read() returns 0 or fails: the descriptor is closed
CloseO(c) ==
    /\ srv.running /\ net[c].state = "open"
    /\ net' = [net EXCEPT ![c].state = "closed"]
    /\ UNCHANGED <<db, file, last, hvars, srv, eng, thr, lb, mtx, fl>>

\* handleClientRead on connection c when read() returns the bytes sent. An
\* exception out of decodeCommand unwinds to main: no reply is written and
\* the process ends, which closes every connection.
ClientReadO(c, sent) ==
    /\ srv.running /\ net[c].state = "open" /\ ReadCount(net[c].log) < MaxReads
    /\ LET raw_input == Reads[sent].raw_input
           command == Reads[sent].command
       IN  IF command.threw
           THEN /\ \E r \in (IF db.dirty THEN persistToFile(db, file)
                             ELSE {[db |-> db, file |-> file]}) :
                    db' = r.db /\ file' = r.file
                /\ srv' = [srv EXCEPT !.running = FALSE, !.input = raw_input, !.cmd = <<>>,
                                      !.reply = None, !.call = "none"]
                /\ net' = [d \in Conns |->
                              [state |-> IF net[d].state = "open" THEN "closed"
                                         ELSE net[d].state,
                               log |-> IF d = c
                                       THEN Append(net[c].log, ReadEvent(net[c].log, raw_input))
                                       ELSE net[d].log]]
           ELSE IF command.cmd = <<>>
           THEN /\ srv' = [srv EXCEPT !.input = raw_input, !.cmd = <<>>,
                                      !.reply = encodeError(InvalidCommand), !.call = "none"]
                /\ net' = [net EXCEPT ![c].log =
                              Exchange(@, raw_input, encodeError(InvalidCommand))]
                /\ UNCHANGED <<db, file>>
           ELSE /\ \E r \in handleCommand(db, file, command.cmd) :
                    /\ db' = r.db
                    /\ srv' = [srv EXCEPT !.input = raw_input, !.cmd = command.cmd,
                                          !.reply = r.reply, !.call = r.call]
                    /\ net' = [net EXCEPT ![c].log = Exchange(@, raw_input, r.reply)]
                /\ UNCHANGED file
    /\ UNCHANGED <<last, hvars, eng, thr, lb, mtx, fl>>

NextO ==
    \/ \E c \in Conns : AcceptO(c)
    \/ \E c \in Conns : CloseO(c)
    \/ \E c \in Conns, sent \in SentO : ClientReadO(c, sent)
    \/ FlushS

SpecOrder == Init /\ [][NextO]_vars

\* C22: on every connection the reply to the request of the N-th read is
\* written before the (N+1)-th read, each reply is written after the read of
\* its request, and the replies are written in the order of the requests.
C22_ReplyBeforeNextRead ==
    \A c \in Conns :
        LET log == net[c].log
        IN  \A j \in DOMAIN log :
                /\ (log[j].ev = "read" /\ log[j].n > 1) =>
                       \E i \in 1..(j - 1) : log[i].ev = "write" /\ log[i].n = log[j].n - 1
                /\ log[j].ev = "write" =>
                       /\ \E i \in 1..(j - 1) : log[i].ev = "read" /\ log[i].n = log[j].n
                       /\ \A i \in 1..(j - 1) : log[i].ev = "write" => log[i].n < log[j].n

C22_Witness ==
    /\ \A c \in Conns : ReadCount(net[c].log) = MaxReads
    /\ \E c \in Conns : net[c].log[2].data # net[c].log[4].data

-----------------------------------------------------------------------------
(* SpecLock: the threads of Threads call set, get and del on one engine,    *)
(* with db_mutex followed. A unique_lock is taken only when nobody holds    *)
(* the mutex, and the section it guards is one step. The shared_lock of get *)
(* is held from the lookup to read_lock.unlock(): mtx.shared says which     *)
(* threads hold it, thr[t].pc is "found" while t holds it after the lookup  *)
(* and "upgrade" from read_lock.unlock() to the unique lock. mtx.unguarded  *)
(* names the writes to store, lru_keys, lru_map or evicted_keys that a      *)
(* thread made while it held the mutex in shared mode only.                 *)

KeysL == {<<"a">>, <<"b">>, <<"c">>}

ValuesL == {<<"1">>}

\* the keys the threads look up and delete
GetKeysL == {<<"a">>}

\* store, lru_keys, lru_map and evicted_keys: what db_mutex is there to guard
Guarded(d) == <<d.store, d.lru_keys, d.lru_map, d.evicted_keys>>

\* lru_keys grows without limit once a get has gone through a dangling
\* `it`; the threads are followed while it is at most one over the capacity
Bounded == Len(db.lru_keys) <= max_cache_size + 1

\* Observe, without the record of what each get has seen
ObserveL(t, rec, d2) == [u \in Threads |-> [Observe(t, rec, d2)[u] EXCEPT !.seen = {}]]

\* set(key, value) by thread t: a unique_lock for the whole call
SetL(t, key, value) ==
    /\ Bounded /\ thr[t].pc \notin {"found", "upgrade"} /\ mtx.shared = {}
    /\ db' = set(db, key, value).db
    /\ thr' = ObserveL(t, Idle, db')
    /\ UNCHANGED <<file, last, hvars, srv, eng, lb, net, mtx, fl>>

\* del(key) by thread t: a unique_lock for the whole call
DelL(t, key) ==
    /\ Bounded /\ thr[t].pc \notin {"found", "upgrade"} /\ mtx.shared = {}
    /\ db' = del(db, key).db
    /\ thr' = ObserveL(t, Idle, db')
    /\ UNCHANGED <<file, last, hvars, srv, eng, lb, net, mtx, fl>>

\* get(key) by thread t from the shared_lock to the end of the lookup, the
\* call of restoreFromDisk included; when the key is not found get returns
\* "NULL" and the shared_lock is released with it
GetBeginL(t, key) ==
    /\ Bounded /\ thr[t].pc \notin {"found", "upgrade"}
    /\ LET r == getFind(db, file, key)
       IN  /\ db' = r.db
           /\ thr' = ObserveL(t, IF r.found THEN [Idle EXCEPT !.pc = "found", !.key = key]
                                 ELSE Idle,
                             r.db)
           /\ mtx' = [shared |-> IF r.found THEN mtx.shared \cup {t} ELSE mtx.shared,
                      unguarded |-> IF Guarded(r.db) # Guarded(db)
                                    THEN mtx.unguarded \cup {"restoreFromDisk"}
                                    ELSE mtx.unguarded]
    /\ UNCHANGED <<file, last, hvars, srv, eng, lb, net, fl>>

\* read_lock.unlock() in get
GetUnlockL(t) ==
    /\ thr[t].pc = "found"
    /\ thr' = [thr EXCEPT ![t].pc = "upgrade"]
    /\ mtx' = [mtx EXCEPT !.shared = @ \ {t}]
    /\ UNCHANGED <<db, file, last, hvars, srv, eng, lb, net, fl>>

\* the rest of that get: the unique_lock, updateLRU(key), return it->second
GetEndL(t) ==
    /\ Bounded /\ thr[t].pc = "upgrade" /\ mtx.shared = {}
    /\ \E r \in getTouch(db, thr[t].key, thr[t].valid) :
        /\ db' = r.db
        /\ thr' = ObserveL(t, Idle, db')
    /\ UNCHANGED <<file, last, hvars, srv, eng, lb, net, mtx, fl>>

\* a round of the flush worker that finds dirty set; persistToFile takes no
\* lock
FlushL ==
    /\ db.dirty
    /\ \E r \in persistToFile(db, file) : db' = r.db /\ file' = r.file
    /\ UNCHANGED <<last, hvars, srv, eng, thr, lb, net, mtx, fl>>

NextL ==
    \/ \E t \in Threads, k \in KeysL, v \in ValuesL : SetL(t, k, v)
    \/ \E t \in Threads, k \in GetKeysL : DelL(t, k)
    \/ \E t \in Threads, k \in GetKeysL : GetBeginL(t, k)
    \/ \E t \in Threads : GetUnlockL(t)
    \/ \E t \in Threads : GetEndL(t)
    \/ FlushL

SpecLock == Init /\ [][NextL]_vars

\* C23: store, lru_keys, lru_map and evicted_keys are written only by a
\* thread that holds db_mutex in exclusive mode; get restores a key from disk
\* only after it has released the shared lock and taken the unique lock.
C23_WritesUnderUniqueLock == mtx.unguarded = {}

\* C29: store holds at most max_cache_size keys whenever no thread holds
\* db_mutex in exclusive mode, the window of get between read_lock.unlock()
\* and the unique lock included.
C29_CapacityOutsideUniqueLock == Cardinality(Resident) <= max_cache_size

-----------------------------------------------------------------------------
(* SpecRace: one run of the process in which persistToFile is followed step *)
(* by step. persistToFile takes no lock, so the set, get and del of a       *)
(* client thread (each one step here, under its own locks) and the steps of *)
(* other executions of persistToFile fall between its steps.                *)
(* fl.by[f] is the execution by f: the flush worker, the thread of          *)
(* flushToDiskAsync, or the thread that runs ~BlinkDB. out is what it has   *)
(* put into its ofstream, visited the keys its loop has passed, snaps what  *)
(* store has held since it began, unlinked whether the file it opened has   *)
(* been removed, wrote how its last completed rewrite compares with snaps.  *)
(* pc is "writing" in the loop and "closing" between the loop and           *)
(* dirty = false. fl.ops counts the set and del calls made.                 *)
(* The ofstream is taken to open, and to hold all records in its buffer     *)
(* until it is closed at the end of persistToFile.                          *)

MaxOps == 3

KeysW == {<<"a">>, <<"b">>}

ValuesW == {<<"1">>}

\* the ofstream closed: its buffer goes to the start of the file it opened
Overwrite(f, out) ==
    IF Len(out) >= Len(f) THEN out ELSE out \o SubSeq(f, Len(out) + 1, Len(f))

\* out is store written out as it was at one of the instants of snaps
OneInstant(out, snaps) == \E st \in snaps : out \in StoreLines(st)

\* the executions of persistToFile after a client call that leaves store as
\* st: each one in progress has one more instant of store behind it
Mutated(st) ==
    [by |-> [f \in Flushers |->
                IF fl.by[f].pc = "idle" THEN fl.by[f]
                ELSE [fl.by[f] EXCEPT !.snaps = @ \cup {st}]],
     ops |-> fl.ops + 1]

SetW(key, value) ==
    /\ eng.alive /\ fl.ops < MaxOps
    /\ db' = set(db, key, value).db
    /\ fl' = Mutated(db'.store)
    /\ UNCHANGED <<file, last, hvars, srv, eng, thr, lb, net, mtx>>

DelW(key) ==
    /\ eng.alive /\ fl.ops < MaxOps
    /\ db' = del(db, key).db
    /\ fl' = Mutated(db'.store)
    /\ UNCHANGED <<file, last, hvars, srv, eng, thr, lb, net, mtx>>

GetW(key) ==
    /\ eng.alive
    /\ \E r \in get(db, file, key) : db' = r.db
    /\ UNCHANGED <<file, last, hvars, srv, eng, thr, lb, net, mtx, fl>>

\* clearPersistenceFile: std::remove. An ofstream that is open on the file
\* goes on writing to the removed file.
ClearFile ==
    /\ eng.alive /\ file # <<>>
    /\ file' = <<>>
    /\ fl' = [fl EXCEPT !.by = [f \in Flushers |->
                 IF fl.by[f].pc = "idle" THEN fl.by[f]
                 ELSE [fl.by[f] EXCEPT !.unlinked = TRUE]]]
    /\ UNCHANGED <<db, last, hvars, srv, eng, thr, lb, net, mtx>>

\* f enters persistToFile: the worker and ~BlinkDB when they read dirty as
\* true, flushToDiskAsync always; the ofstream truncates the file
FlushBegin(f) ==
    /\ fl.by[f].pc = "idle"
    /\ f = "worker" => db.dirty
    /\ f = "async" => eng.alive
    /\ f = "dtor" => eng.alive /\ db.dirty
    /\ file' = <<>>
    /\ fl' = [fl EXCEPT !.by[f] = [FlushIdle EXCEPT !.pc = "writing",
                                                    !.snaps = {db.store}]]
    /\ eng' = IF f = "dtor" THEN [eng EXCEPT !.alive = FALSE] ELSE eng
    /\ UNCHANGED <<db, last, hvars, srv, thr, lb, net, mtx>>

\* ~BlinkDB when dirty is false: no flush
DestroyClean ==
    /\ eng.alive /\ ~db.dirty /\ fl.by["dtor"].pc = "idle"
    /\ eng' = [eng EXCEPT !.alive = FALSE]
    /\ UNCHANGED <<db, file, last, hvars, srv, thr, lb, net, mtx, fl>>

\* one round of the loop of persistToFile: the record of a key the loop has
\* not passed, as store holds it now
FlushWrite(f, key) ==
    /\ fl.by[f].pc = "writing"
    /\ key \in StoreKeys(db.store) \ fl.by[f].visited
    /\ fl' = [fl EXCEPT !.by[f].out = @ \o WriteRecord(key, db.store[key]),
                        !.by[f].visited = @ \cup {key}]
    /\ UNCHANGED <<db, file, last, hvars, srv, eng, thr, lb, net, mtx>>

\* the loop of persistToFile ends: it has passed every key of store. It
\* iterates store without a lock; when store was written under it, the loop
\* may also end before it has passed every key.
FlushLoopEnd(f) ==
    /\ fl.by[f].pc = "writing"
    /\ \/ StoreKeys(db.store) \subseteq fl.by[f].visited
       \/ Cardinality(fl.by[f].snaps) > 1
    /\ fl' = [fl EXCEPT !.by[f].pc = "closing"]
    /\ UNCHANGED <<db, file, last, hvars, srv, eng, thr, lb, net, mtx>>

\* the end of persistToFile: dirty = false, and the ofstream is closed
FlushEnd(f) ==
    /\ fl.by[f].pc = "closing"
    /\ db' = [db EXCEPT !.dirty = FALSE]
    /\ file' = IF fl.by[f].unlinked THEN file ELSE Overwrite(file, fl.by[f].out)
    /\ fl' = [fl EXCEPT !.by[f] =
                 [FlushIdle EXCEPT !.wrote = IF OneInstant(fl.by[f].out, fl.by[f].snaps)
                                             THEN "instant" ELSE "torn"]]
    /\ UNCHANGED <<last, hvars, srv, eng, thr, lb, net, mtx>>

NextW ==
    \/ \E k \in KeysW, v \in ValuesW : SetW(k, v)
    \/ \E k \in KeysW : DelW(k)
    \/ \E k \in KeysW : GetW(k)
    \/ ClearFile
    \/ \E f \in Flushers : FlushBegin(f)
    \/ DestroyClean
    \/ \E f \in Flushers, k \in KeysW : FlushWrite(f, k)
    \/ \E f \in Flushers : FlushLoopEnd(f)
    \/ \E f \in Flushers : FlushEnd(f)

SpecRace == Init /\ [][NextW]_vars

\* the executions of persistToFile in progress
InProgress == {f \in Flushers : fl.by[f].pc # "idle"}

\* C24: what a flush has written is store as it was at one single instant
\* of that flush, also when set and del calls ran during it.
C24_FlushWritesOneInstant == \A f \in Flushers : fl.by[f].wrote # "torn"

\* C25: at most one execution of persistToFile is in progress at any time,
\* counting the flush worker, ~BlinkDB and flushToDiskAsync.
C25_OneRewriteAtATime == Cardinality(InProgress) <= 1

\* C27: whenever dirty is false and no flush is in progress, the file holds
\* exactly the records of store.
C27_CleanMeansFileMatches ==
    (~db.dirty /\ InProgress = {}) => file \in StoreLines(db.store)

-----------------------------------------------------------------------------
(* SpecLive: the run of SpecRace with one client thread that calls set and  *)
(* del (MaxOps calls at most) and the flush worker as the only thread that  *)
(* runs persistToFile. The worker is a thread of its own that loops for     *)
(* ever: whenever it has a step to take, it takes one in the end.           *)

\* a step of the flush worker: it finds dirty set and enters persistToFile,
\* or goes on in it
WorkerStep ==
    \/ FlushBegin("worker")
    \/ \E k \in KeysW : FlushWrite("worker", k)
    \/ FlushLoopEnd("worker")
    \/ FlushEnd("worker")

NextV ==
    \/ \E k \in KeysW, v \in ValuesW : SetW(k, v)
    \/ \E k \in KeysW : DelW(k)
    \/ WorkerStep

SpecLive == Init /\ [][NextV]_vars /\ WF_vars(WorkerStep)

\* the file holds exactly the records of store, and dirty is false
Flushed == ~db.dirty /\ file \in StoreLines(db.store)

\* C26: when the flush worker keeps running and the n-th set or del is the
\* last one, the file ends up equal to store and dirty ends up false, also
\* when that call ran while a flush was in progress.
C26_MutationEventuallyFlushed ==
    \A n \in 1..MaxOps : (<>[](fl.ops = n)) => <>[]Flushed

-----------------------------------------------------------------------------
(* SpecStale: one run of the process, started with no persistence file: a   *)
(* single-threaded driver calls set, get and del, and the flush worker runs *)
(* between two calls. h_set[k] is the value of the most recent set of k.    *)

ValuesT == {<<"1">>, <<"2">>}

SetT(key, value) ==
    /\ db' = set(db, key, value).db
    /\ h_set' = [h_set EXCEPT ![key] = value]
    /\ UNCHANGED <<file, last, h_val, h_flushed, srv, eng, thr, lb, net, mtx, fl>>

GetT(key) ==
    /\ \E r \in get(db, file, key) : db' = r.db
    /\ UNCHANGED <<file, last, hvars, srv, eng, thr, lb, net, mtx, fl>>

DelT(key) ==
    /\ db' = del(db, key).db
    /\ UNCHANGED <<file, last, hvars, srv, eng, thr, lb, net, mtx, fl>>

\* a round of the flush worker that finds dirty set
FlushT ==
    /\ db.dirty
    /\ \E r \in persistToFile(db, file) : db' = r.db /\ file' = r.file
    /\ UNCHANGED <<last, hvars, srv, eng, thr, lb, net, mtx, fl>>

NextT ==
    \/ \E k \in Keys, v \in ValuesT : SetT(k, v)
    \/ \E k \in Keys : GetT(k)
    \/ \E k \in Keys : DelT(k)
    \/ FlushT

SpecStale == Init /\ [][NextT]_vars

\* C31: every get(k) returns "NULL" or the value of the most recent set of
\* k, never the value of an earlier set that a later one has replaced, also
\* when k is restored from the persistence file after its eviction.
C31_NoStaleRead ==
    \A k \in Keys : \A r \in get(db, file, k) : r.ret \in {NULL, h_set[k]}

====
